---- MODULE Spec2Model ----
(***************************************************************************)
(* Model of probreg/gmmtree.py: the GMMTree model object, its EM           *)
(* registration loop (GMMTree.registration) and the level classifier       *)
(* (predict).                                                              *)
(*                                                                         *)
(* The native routines (_gmmtree.build_gmmtree, _gmmtree.gmmtree_reg_estep)*)
(* and the modules transformation / se3_op live outside gmmtree.py; they   *)
(* are modelled from their documented contract.  Real numbers              *)
(* are modelled by small integers: coordinates are integers modulo TMod    *)
(* for transformations, rotations are quarter turns about the z axis, and  *)
(* objective values are integers 0..QMax.                                  *)
(***************************************************************************)
EXTENDS Integers, Sequences, FiniteSets, TLC

\* ---------------------------------------------------------------- bounds
MaxIter == 3          \* largest maxiter passed to registration
QMax == 2             \* objective values are 0..QMax
TMod == 2             \* translations are taken modulo TMod
NumSources == 2       \* number of distinct source point clouds
MaxTreeLevel == 2     \* largest tree_level a model is built with
MaxData == 2          \* longest query point set handed to predict
NumWorkers == 2       \* worker processes of the Pool

\* ------------------------------------------------------------- constants
F32Eps == 1           \* np.finfo(np.float32).eps, in units of mass
LambdaC == 100        \* lambda_c = 0.01, in units of 1.0e-4
LambdaS == 10         \* lambda_s = 0.001, in units of 1.0e-4
VarianceFloor == 1    \* 1.0e-4, in units of 1.0e-4
Branching == 8        \* the 8 of the n_nodes formula

\* Python None, and a local name that was never assigned: the empty tuple.
\* A value that is present is wrapped in a one-element tuple.
None == <<>>
Unbound == <<>>
Some(v) == <<v>>
\* the residual array of np.linalg.lstsq: shape (0,) or shape (1,)
Empty == <<>>
Arr(v) == <<v>>

\* --------------------------------------------------- rigid transformations
Vec == {<<x, y, z>> : x \in 0..(TMod - 1), y \in 0..(TMod - 1), z \in {0}}

\* quarter turn about z, r times
Rot(r, p) ==
    CASE r % 4 = 0 -> <<p[1] % TMod, p[2] % TMod, p[3] % TMod>>
      [] r % 4 = 1 -> <<(0 - p[2]) % TMod, p[1] % TMod, p[3] % TMod>>
      [] r % 4 = 2 -> <<(0 - p[1]) % TMod, (0 - p[2]) % TMod, p[3] % TMod>>
      [] r % 4 = 3 -> <<p[2] % TMod, (0 - p[1]) % TMod, p[3] % TMod>>

VAdd(a, b) == <<(a[1] + b[1]) % TMod, (a[2] + b[2]) % TMod, (a[3] + b[3]) % TMod>>

VNeg(a) == <<(0 - a[1]) % TMod, (0 - a[2]) % TMod, (0 - a[3]) % TMod>>

\* tf.RigidTransformation(rot, t)
RigidTransformation(rot, t) == [rot |-> rot % 4, t |-> t]

\* tf.RigidTransformation(**{}) : the identity
IdentityTransformation == RigidTransformation(0, <<0, 0, 0>>)

\* RigidTransformation.transform(points): p -> R p + t
transform(tr, points) == [k \in 1..Len(points) |-> VAdd(Rot(tr.rot, points[k]), tr.t)]

\* RigidTransformation.inverse(): p -> R^-1 (p - t)
inverse(tr) == RigidTransformation(4 - tr.rot, VNeg(Rot(4 - tr.rot, tr.t)))

\* so.twist_mul(x, rot, t): the motion exp(x) applied after (rot, t)
twist_mul(x, rot, t) == <<(x.w + rot) % 4, VAdd(Rot(x.w, t), x.v)>>

ZeroTwist == [w |-> 0, v |-> <<0, 0, 0>>]

\* the twists a least-squares solve can return in this model
Twists == {ZeroTwist, [w |-> 1, v |-> <<1, 0, 0>>]}

\* ------------------------------------------------------------ the GMM tree
RECURSIVE Pow(_, _)
Pow(b, e) == IF e = 0 THEN 1 ELSE b * Pow(b, e - 1)

\* [int(8 * (1 - 8**i) / (1 - 8)) for i in np.arange(1, tree_level + 1)]
\* (numerator and denominator are both negated to divide naturals)
NNodes(level) == [k \in 1..level |-> (Branching * (Pow(Branching, k) - 1)) \div (Branching - 1)]

\* center of the node with 0-based index idx in the tree of source src
CenterOf(src, idx) == <<(idx + src - 1) % (src + 2), ((idx \div 4) * (src - 1)) % 2, 0>>

\* _gmmtree.build_gmmtree(source, tree_level, lambda_s, 1.0e-4): the flat,
\* breadth-first node sequence; a node is <<prior, mean, covariance>>
build_gmmtree(src, level, lambda_s, floor) ==
    [k \in 1..NNodes(level)[level] |-> <<1, CenterOf(src, k - 1), floor>>]

\* _gmmtree.gmmtree_reg_estep(target, nodes, tree_level, lambda_c): the
\* possible moment sequences, one moment <<m0, m1, m2>> per node; a pruned
\* node has a zero moment, a visited one the mass of the target points
ZeroMoment == <<0, <<0, 0, 0>>, 0>>

Supports == {{}, {1, 2, 3}}

gmmtree_reg_estep(t_target, nds, level, lambda_c) ==
    {[k \in 1..Len(nds) |->
        IF k \in S THEN <<Len(t_target), t_target[1], 0>> ELSE ZeroMoment] : S \in Supports}

EstepResult(moments) == [moments |-> moments]

MstepResult(transformation, qq) == [transformation |-> transformation, q |-> qq]

\* rank of the stacked system: a node with mass contributes three rows that
\* constrain v + w x s; one node gives rank 3, two give 5, three or more 6
Rank(rows) ==
    CASE Cardinality(rows) = 0 -> 0
      [] Cardinality(rows) = 1 -> 3
      [] Cardinality(rows) = 2 -> 5
      [] OTHER -> 6

\* np.linalg.lstsq(amat, bmat, rcond=-1): the pairs <<x, residuals>>.  A zero
\* system has the minimum-norm solution x = 0; the residual array is empty
\* whenever the rank is below the 6 columns.
lstsq(rows) ==
    IF rows = {} THEN {<<ZeroTwist, Empty>>}
    ELSE IF Rank(rows) < 6 THEN {<<x, Empty>> : x \in Twists}
    ELSE {<<x, Arr(v)>> : x \in Twists, v \in 0..QMax}

\* GMMTree.maximization_step: the possible MstepResults
maximization_step(estep, trans_p) ==
    LET moments == estep.moments
        rows == {k \in 1..Len(moments) : ~(moments[k][1] < F32Eps)}
    IN {MstepResult(RigidTransformation(twist_mul(sol[1], trans_p.rot, trans_p.t)[1],
                                        twist_mul(sol[1], trans_p.rot, trans_p.t)[2]),
                    sol[2]) : sol \in lstsq(rows)}

Abs(n) == IF n < 0 THEN 0 - n ELSE n

\* the comparison with <= in place of <
CloseEnoughLe(new, old, tl) ==
    IF new = Empty \/ old = Empty THEN FALSE ELSE Abs(new[1] - old[1]) <= tl

\* truth value of  abs(res.q - q) < tol  on residual arrays: an empty array
\* (either operand empty) is falsy, a one-element array is its element
CloseEnough(new, old, tl) ==
    IF new = Empty \/ old = Empty THEN FALSE ELSE Abs(new[1] - old[1]) < tl

\* ------------------------------------------------------------------ state
VARIABLES
    source,      \* GMMTree._source
    tree_level,  \* GMMTree._tree_level
    lambda_c,    \* GMMTree._lambda_c
    lambda_s,    \* GMMTree._lambda_s
    tf_result,   \* GMMTree._tf_result, the working transformation
    callbacks,   \* GMMTree._callbacks
    n_nodes,     \* GMMTree.n_nodes
    nodes,       \* GMMTree._nodes
    pc,          \* position of the caller / of registration
    target,      \* registration argument
    maxiter,     \* registration argument
    tol,         \* registration argument
    i,           \* loop variable of  for i in range(maxiter)
    q,           \* local q of registration
    res,         \* local res of registration
    estep_res,   \* local estep_res of registration
    c,           \* position in  for c in self._callbacks  (1-based)
    ret,         \* value returned by registration
    exit,        \* how the for loop was left
    hist,        \* history: every M-step's result, prior transformation and moments
    nE,          \* history: number of E-steps run
    cblog,       \* history: callback invocations
    p_pc,        \* position of predict
    p_level,     \* predict argument tree_level
    data,        \* predict argument data
    parallel,    \* predict argument parallel
    centers,     \* local centers of predict
    labels,      \* local labels of predict
    p_i,         \* position in  for i, d in enumerate(data)  (1-based)
    pending,     \* Pool.map: indices of data no worker has taken yet
    busy,        \* Pool.map: the index each worker is computing, 0 if none
    results,     \* Pool.map: result slot of every index
    out,         \* history: labels returned by the call of each mode
    failed       \* history: modes whose call failed the assertion

modelVars == <<source, tree_level, lambda_c, lambda_s, n_nodes, nodes>>
frameVars == <<target, maxiter, tol, i, q, res, estep_res, c, ret, exit>>
histVars == <<hist, nE, cblog>>
regVars == <<tf_result, callbacks, pc, frameVars, histVars>>
predVars == <<p_pc, p_level, data, parallel, centers, labels, p_i, pending, busy, results,
              out, failed>>
vars == <<modelVars, regVars, predVars>>

RegTreeLevels == {1}
RegSources == {1, 2}
InitTransforms == {IdentityTransformation, RigidTransformation(1, <<1, 0, 0>>)}
CallbackLists == {<<>>, <<"cb1", "cb2">>}
Targets == {<<<<1, 0, 0>>, <<0, 0, 0>>>>}
Tols == {2}

\* GMMTree.__init__(source, tree_level, lambda_c, lambda_s, tf_init_params)
GMMTreeInit(src, level, tf_init) ==
    /\ source = src
    /\ tree_level = level
    /\ lambda_c = LambdaC
    /\ lambda_s = LambdaS
    /\ tf_result = tf_init
    /\ callbacks = <<>>
    /\ n_nodes = NNodes(level)
    /\ nodes = build_gmmtree(src, level, LambdaS, VarianceFloor)

FrameInit ==
    /\ pc = "idle"
    /\ target = <<>>
    /\ maxiter = 0
    /\ tol = 0
    /\ i = 0
    /\ q = None
    /\ res = Unbound
    /\ estep_res = Unbound
    /\ c = 0
    /\ ret = None
    /\ exit = "none"
    /\ hist = <<>>
    /\ nE = 0
    /\ cblog = <<>>

PredictInit ==
    /\ p_pc = "idle"
    /\ p_level = 0
    /\ data = <<>>
    /\ parallel = FALSE
    /\ centers = <<>>
    /\ labels = <<>>
    /\ p_i = 0
    /\ pending = {}
    /\ busy = [w \in 1..NumWorkers |-> 0]
    /\ results = <<>>
    /\ out = [m \in BOOLEAN |-> None]
    /\ failed = {}

Init ==
    /\ \E src \in RegSources, level \in RegTreeLevels, tf_init \in InitTransforms :
          GMMTreeInit(src, level, tf_init)
    /\ FrameInit
    /\ PredictInit

\* GMMTree.set_source
SetSource(src) ==
    /\ pc = "idle"
    /\ source' = src
    /\ nodes' = build_gmmtree(src, tree_level, lambda_s, VarianceFloor)
    /\ UNCHANGED <<predVars, tree_level, lambda_c, lambda_s, n_nodes, tf_result, callbacks, pc,
                   frameVars, histVars>>

\* GMMTree.set_callbacks
SetCallbacks(cbs) ==
    /\ pc = "idle"
    /\ callbacks' = cbs
    /\ UNCHANGED <<predVars, modelVars, tf_result, pc, frameVars, histVars>>

\* the entry with q initialised to an objective of 0 instead of None
RegistrationQZero(tg, mi, tl) ==
    /\ pc = "idle"
    /\ target' = tg
    /\ maxiter' = mi
    /\ tol' = tl
    /\ q' = Some(Arr(0))
    /\ i' = 0
    /\ pc' = "for"
    /\ UNCHANGED <<predVars, modelVars, tf_result, callbacks, res, estep_res, c, ret, exit, histVars>>

\* registration(target, maxiter, tol): entry, q = None
Registration(tg, mi, tl) ==
    /\ pc = "idle"
    /\ target' = tg
    /\ maxiter' = mi
    /\ tol' = tl
    /\ q' = None
    /\ i' = 0
    /\ pc' = "for"
    /\ UNCHANGED <<predVars, modelVars, tf_result, callbacks, res, estep_res, c, ret, exit, histVars>>

\* for i in range(maxiter): a further value of i; t_target; expectation_step
ExpectationStep ==
    /\ pc = "for"
    /\ i < maxiter
    /\ \E moments \in gmmtree_reg_estep(transform(tf_result, target), nodes,
                                        tree_level, lambda_c) :
          estep_res' = Some(EstepResult(moments))
    /\ nE' = nE + 1
    /\ pc' = "mstep"
    /\ UNCHANGED <<predVars, modelVars, tf_result, callbacks, target, maxiter, tol, i, q, res, c,
                   ret, exit, hist, cblog>>

\* an M-step that whitens the covariance of self._nodes[i] in place for
\* every node with mass
MaximizationStepWrites ==
    /\ pc = "mstep"
    /\ \E r \in maximization_step(estep_res[1], tf_result) :
          /\ res' = Some(r)
          /\ tf_result' = r.transformation
          /\ hist' = Append(hist, [q |-> r.q, transformation |-> r.transformation,
                                   prior |-> tf_result, moments |-> estep_res[1].moments])
    /\ nodes' = [k \in 1..Len(nodes) |->
                    IF estep_res[1].moments[k][1] < F32Eps THEN nodes[k]
                    ELSE <<nodes[k][1], nodes[k][2], nodes[k][3] + estep_res[1].moments[k][1]>>]
    /\ c' = 1
    /\ pc' = "callbacks"
    /\ UNCHANGED <<predVars, source, tree_level, lambda_c, lambda_s, n_nodes, callbacks,
                   target, maxiter, tol, i, q, estep_res, ret, exit, nE, cblog>>

\* res = self.maximization_step(...); self._tf_result = res.transformation
MaximizationStep ==
    /\ pc = "mstep"
    /\ \E r \in maximization_step(estep_res[1], tf_result) :
          /\ res' = Some(r)
          /\ tf_result' = r.transformation
          /\ hist' = Append(hist, [q |-> r.q, transformation |-> r.transformation,
                                   prior |-> tf_result, moments |-> estep_res[1].moments])
    /\ c' = 1
    /\ pc' = "callbacks"
    /\ UNCHANGED <<predVars, modelVars, callbacks, target, maxiter, tol, i, q, estep_res, ret,
                   exit, nE, cblog>>

\* the callback handed the working transformation itself
CallbackReturnsRaw ==
    /\ pc = "callbacks"
    /\ c <= Len(callbacks)
    /\ cblog' = Append(cblog, [iter |-> i, cb |-> callbacks[c], outcome |-> "returned",
                               args |-> <<tf_result>>])
    /\ c' = c + 1
    /\ UNCHANGED <<predVars, modelVars, tf_result, callbacks, pc, target, maxiter, tol, i, q, res,
                   estep_res, ret, exit, hist, nE>>

\* c(self._tf_result.inverse()) returns
CallbackReturns ==
    /\ pc = "callbacks"
    /\ c <= Len(callbacks)
    /\ cblog' = Append(cblog, [iter |-> i, cb |-> callbacks[c], outcome |-> "returned",
                               args |-> <<inverse(tf_result)>>])
    /\ c' = c + 1
    /\ UNCHANGED <<predVars, modelVars, tf_result, callbacks, pc, target, maxiter, tol, i, q, res,
                   estep_res, ret, exit, hist, nE>>

\* a loop that catches the callback's error and goes on
CallbackRaisesSwallowed ==
    /\ pc = "callbacks"
    /\ c <= Len(callbacks)
    /\ cblog' = Append(cblog, [iter |-> i, cb |-> callbacks[c], outcome |-> "raised",
                               args |-> <<inverse(tf_result)>>])
    /\ c' = c + 1
    /\ UNCHANGED <<predVars, modelVars, tf_result, callbacks, pc, target, maxiter, tol, i, q, res,
                   estep_res, ret, exit, hist, nE>>

\* c(self._tf_result.inverse()) raises: nothing in registration catches it
CallbackRaises ==
    /\ pc = "callbacks"
    /\ c <= Len(callbacks)
    /\ cblog' = Append(cblog, [iter |-> i, cb |-> callbacks[c], outcome |-> "raised",
                               args |-> <<inverse(tf_result)>>])
    /\ pc' = "raised"
    /\ UNCHANGED <<predVars, modelVars, tf_result, callbacks, target, maxiter, tol, i, q, res,
                   estep_res, c, ret, exit, hist, nE>>

\* if not q is None and abs(res.q - q) < tol: break
CheckBreak ==
    /\ pc = "callbacks"
    /\ c > Len(callbacks)
    /\ q # None /\ CloseEnough(res[1].q, q[1], tol)
    /\ exit' = "Converged"
    /\ pc' = "return"
    /\ UNCHANGED <<predVars, modelVars, tf_result, callbacks, target, maxiter, tol, i, q, res,
                   estep_res, c, ret, histVars>>

\* otherwise q = res.q and the loop goes on
CheckContinue ==
    /\ pc = "callbacks"
    /\ c > Len(callbacks)
    /\ ~(q # None /\ CloseEnough(res[1].q, q[1], tol))
    /\ q' = Some(res[1].q)
    /\ i' = i + 1
    /\ pc' = "for"
    /\ UNCHANGED <<predVars, modelVars, tf_result, callbacks, target, maxiter, tol, res,
                   estep_res, c, ret, exit, histVars>>

\* range(maxiter) is exhausted
ForExhausted ==
    /\ pc = "for"
    /\ ~(i < maxiter)
    /\ exit' = "MaxIterationsReached"
    /\ pc' = "return"
    /\ UNCHANGED <<predVars, modelVars, tf_result, callbacks, target, maxiter, tol, i, q, res,
                   estep_res, c, ret, histVars>>

\* return MstepResult(self._tf_result.inverse(), res.q)
Return ==
    /\ pc = "return"
    /\ res # Unbound
    /\ ret' = Some(MstepResult(inverse(tf_result), res[1].q))
    /\ pc' = "returned"
    /\ UNCHANGED <<predVars, modelVars, tf_result, callbacks, target, maxiter, tol, i, q, res,
                   estep_res, c, exit, histVars>>

\* the same statement when res was never assigned: UnboundLocalError
ReturnUnbound ==
    /\ pc = "return"
    /\ res = Unbound
    /\ pc' = "raised_unbound"
    /\ UNCHANGED <<predVars, modelVars, tf_result, callbacks, target, maxiter, tol, i, q, res,
                   estep_res, c, ret, exit, histVars>>

Next ==
    \/ \E src \in RegSources : SetSource(src)
    \/ \E cbs \in CallbackLists : SetCallbacks(cbs)
    \/ \E tg \in Targets, mi \in 0..MaxIter, tl \in Tols : Registration(tg, mi, tl)
    \/ ExpectationStep
    \/ MaximizationStep
    \/ CallbackReturns
    \/ CallbackRaises
    \/ CheckBreak
    \/ CheckContinue
    \/ ForExhausted
    \/ Return
    \/ ReturnUnbound

Spec == Init /\ [][Next]_vars

\* ---------------------------------------------------------------- predict
\* arr[a:b] of Python, a and b 0-based, b clamped to the length
Slice(arr, a, b) == SubSeq(arr, a + 1, IF b < Len(arr) THEN b ELSE Len(arr))

\* np.linalg.norm(centers - d, axis=1)**2, one value per center
Norm2(cs, d) ==
    [k \in 1..Len(cs) |-> (cs[k][1] - d[1]) * (cs[k][1] - d[1])
                          + (cs[k][2] - d[2]) * (cs[k][2] - d[2])
                          + (cs[k][3] - d[3]) * (cs[k][3] - d[3])]

\* position (1-based) of the first minimum among vals[lo..hi]; on a tie
\* between the halves the lower position wins
RECURSIVE FirstMin(_, _, _)
FirstMin(vals, lo, hi) ==
    IF lo = hi THEN lo
    ELSE LET mid == (lo + hi) \div 2
             left == FirstMin(vals, lo, mid)
             right == FirstMin(vals, mid + 1, hi)
         IN IF vals[right] < vals[left] THEN right ELSE left

\* np.argmin: the 0-based index of the first minimum
argmin(vals) == FirstMin(vals, 1, Len(vals)) - 1

\* bestcenter(d, centers)
bestcenter(d, cs) == argmin(Norm2(cs, d))

\* the slice of level 1 taken for every level
LevelCentersFromZero(nds, nn, level) ==
    Slice([k \in 1..Len(nds) |-> nds[k][2]], 0, nn[level])

\* centers of predict: the slice of the node means of the level
LevelCenters(nds, nn, level) ==
    IF level = 1
    THEN Slice([k \in 1..Len(nds) |-> nds[k][2]], 0, nn[level])
    ELSE Slice([k \in 1..Len(nds) |-> nds[k][2]], nn[level - 1], nn[level])

Points == {<<0, 0, 0>>, <<3, 1, 0>>}
DataSets == UNION {[1..n -> Points] : n \in 0..MaxData}
Levels == 0..(MaxTreeLevel + 1)

\* the condition of  assert tree_level <= gt._tree_level and tree_level > 0
LevelOk(lv, maxLevel) == lv <= maxLevel /\ lv > 0

\* Python's list[k] for k >= 0 or a negative k counted from the end
PyIndex(list, k) == IF k >= 0 THEN list[k + 1] ELSE list[Len(list) + k + 1]

\* the two calls of one comparison are made with the same arguments
CanCall(lv, d, par) ==
    /\ p_pc \in {"idle", "returned", "assert_failed"}
    /\ out[par] = None
    /\ par \notin failed
    /\ p_pc # "idle" => lv = p_level /\ d = data

\* the call with the assertion stripped, for a level of 0 on a tree of two
\* or more levels: n_nodes[-2] and n_nodes[-1] select the deepest level
PredictAssertStripped(lv, d, par) ==
    /\ CanCall(lv, d, par)
    /\ ~LevelOk(lv, tree_level)
    /\ lv = 0 /\ Len(n_nodes) >= 2
    /\ p_level' = lv
    /\ data' = d
    /\ parallel' = par
    /\ centers' = Slice([k \in 1..Len(nodes) |-> nodes[k][2]],
                        PyIndex(n_nodes, lv - 2), PyIndex(n_nodes, lv - 1))
    /\ labels' = [k \in 1..Len(d) |-> argmin(Norm2(centers', d[k]))]
    /\ out' = [out EXCEPT ![par] = Some(labels')]
    /\ p_pc' = "returned"
    /\ UNCHANGED <<modelVars, regVars, p_i, pending, busy, results, failed>>

\* assert tree_level <= gt._tree_level and tree_level > 0  fails
PredictAssertFails(lv, d, par) ==
    /\ CanCall(lv, d, par)
    /\ ~LevelOk(lv, tree_level)
    /\ p_level' = lv
    /\ data' = d
    /\ parallel' = par
    /\ failed' = failed \cup {par}
    /\ p_pc' = "assert_failed"
    /\ UNCHANGED <<modelVars, regVars, centers, labels, p_i, pending, busy, results, out>>

\* predict(gt, data, tree_level, parallel=False) up to labels = np.zeros(...)
PredictSequential(lv, d) ==
    /\ CanCall(lv, d, FALSE)
    /\ LevelOk(lv, tree_level)
    /\ p_level' = lv
    /\ data' = d
    /\ parallel' = FALSE
    /\ centers' = LevelCenters(nodes, n_nodes, lv)
    /\ labels' = [k \in 1..Len(d) |-> 0]
    /\ p_i' = 1
    /\ p_pc' = "loop"
    /\ UNCHANGED <<modelVars, regVars, pending, busy, results, out, failed>>

\* labels[i] = np.argmin(np.linalg.norm(centers - d, axis=1)**2)
LoopStep ==
    /\ p_pc = "loop"
    /\ p_i <= Len(data)
    /\ labels' = [labels EXCEPT ![p_i] = argmin(Norm2(centers, data[p_i]))]
    /\ p_i' = p_i + 1
    /\ UNCHANGED <<modelVars, regVars, p_pc, p_level, data, parallel, centers, pending,
                   busy, results, out, failed>>

\* return labels, after the loop
LoopReturn ==
    /\ p_pc = "loop"
    /\ p_i > Len(data)
    /\ out' = [out EXCEPT ![FALSE] = Some(labels)]
    /\ p_pc' = "returned"
    /\ UNCHANGED <<modelVars, regVars, p_level, data, parallel, centers, labels, p_i,
                   pending, busy, results, failed>>

\* predict(gt, data, tree_level, parallel=True) up to pool.map(...)
PredictParallel(lv, d) ==
    /\ CanCall(lv, d, TRUE)
    /\ LevelOk(lv, tree_level)
    /\ p_level' = lv
    /\ data' = d
    /\ parallel' = TRUE
    /\ centers' = LevelCenters(nodes, n_nodes, lv)
    /\ pending' = 1..Len(d)
    /\ busy' = [w \in 1..NumWorkers |-> 0]
    /\ results' = [k \in 1..Len(d) |-> None]
    /\ p_pc' = "map"
    /\ UNCHANGED <<modelVars, regVars, labels, p_i, out, failed>>

\* a free worker takes any item of data not yet taken
WorkerTake(w) ==
    /\ p_pc = "map"
    /\ busy[w] = 0
    /\ \E k \in pending :
          /\ busy' = [busy EXCEPT ![w] = k]
          /\ pending' = pending \ {k}
    /\ UNCHANGED <<modelVars, regVars, p_pc, p_level, data, parallel, centers, labels, p_i,
                   results, out, failed>>

\* a worker whose result is stored in the next free slot, in completion order
WorkerDoneInCompletionOrder(w) ==
    /\ p_pc = "map"
    /\ busy[w] # 0
    /\ LET slot == CHOOSE k \in 1..Len(results) :
                        results[k] = None /\ \A j \in 1..(k - 1) : results[j] # None
       IN results' = [results EXCEPT ![slot] = Some(bestcenter(data[busy[w]], centers))]
    /\ busy' = [busy EXCEPT ![w] = 0]
    /\ UNCHANGED <<modelVars, regVars, p_pc, p_level, data, parallel, centers, labels, p_i,
                   pending, out, failed>>

\* the worker runs partial(bestcenter, centers=centers) on its item; the
\* result goes to the slot of the item's index
WorkerDone(w) ==
    /\ p_pc = "map"
    /\ busy[w] # 0
    /\ results' = [results EXCEPT ![busy[w]] = Some(bestcenter(data[busy[w]], centers))]
    /\ busy' = [busy EXCEPT ![w] = 0]
    /\ UNCHANGED <<modelVars, regVars, p_pc, p_level, data, parallel, centers, labels, p_i,
                   pending, out, failed>>

\* pool.map returns the list of results in the order of data; return labels
MapReturn ==
    /\ p_pc = "map"
    /\ pending = {}
    /\ \A w \in 1..NumWorkers : busy[w] = 0
    /\ labels' = [k \in 1..Len(results) |-> results[k][1]]
    /\ out' = [out EXCEPT ![TRUE] = Some([k \in 1..Len(results) |-> results[k][1]])]
    /\ p_pc' = "returned"
    /\ UNCHANGED <<modelVars, regVars, p_level, data, parallel, centers, p_i, pending, busy,
                   results, failed>>

InitPredict ==
    /\ \E src \in 1..NumSources, level \in 1..MaxTreeLevel :
          GMMTreeInit(src, level, IdentityTransformation)
    /\ FrameInit
    /\ PredictInit

NextPredict ==
    \/ \E lv \in Levels, d \in DataSets, par \in BOOLEAN : PredictAssertFails(lv, d, par)
    \/ \E lv \in Levels, d \in DataSets : PredictSequential(lv, d)
    \/ \E lv \in Levels, d \in DataSets : PredictParallel(lv, d)
    \/ LoopStep
    \/ LoopReturn
    \/ \E w \in 1..NumWorkers : WorkerTake(w)
    \/ \E w \in 1..NumWorkers : WorkerDone(w)
    \/ MapReturn

SpecPredict == InitPredict /\ [][NextPredict]_vars

\* ------------------------------------------------------ predict: properties
\* cumulative(L) = 8 + 8^2 + ... + 8^L, cumulative(0) = 0
RECURSIVE Cumulative(_)
Cumulative(L) == IF L <= 0 THEN 0 ELSE Cumulative(L - 1) + Pow(8, L)

\* squared Euclidean distance of two points
Dist2(a, b) ==
    (a[1] - b[1]) * (a[1] - b[1]) + (a[2] - b[2]) * (a[2] - b[2])
      + (a[3] - b[3]) * (a[3] - b[3])

\* C5: a call with a level outside [1, tree_level] fails the level check
\* and returns no labels; a call with a level inside it does not fail it.
C5_LevelValidated ==
    /\ \A par \in BOOLEAN :
          /\ par \in failed => (p_level < 1 \/ p_level > tree_level) /\ out[par] = None
          /\ out[par] # None => p_level >= 1 /\ p_level <= tree_level /\ par \notin failed
    /\ p_pc \in {"loop", "map"} => p_level >= 1 /\ p_level <= tree_level
    /\ p_pc = "assert_failed" => (p_level < 1 \/ p_level > tree_level) /\ parallel \in failed
    /\ (p_pc # "idle" /\ (p_level < 1 \/ p_level > tree_level)) => p_pc = "assert_failed"

C5_Witness ==
    /\ failed = BOOLEAN
    /\ p_level = tree_level + 1
    /\ Len(data) > 0
    /\ p_pc = "assert_failed"

\* C6: for a valid level L the returned labels are one per query point, in
\* query order; each lies in [0, 8^L) and is the offset, from
\* cumulative(L-1), of a node of level L whose center is nearest to the
\* point; at level 1 the center of node 0 gets label 0.
C6_NearestCenterOfLevel ==
    \A par \in BOOLEAN :
        out[par] # None =>
          LET labs == out[par][1]
              base == Cumulative(p_level - 1)
          IN /\ Len(labs) = Len(data)
             /\ \A j \in 1..Len(data) :
                   /\ labs[j] >= 0 /\ labs[j] < Pow(8, p_level)
                   /\ base + labs[j] < Cumulative(p_level)
                   /\ \A m \in (base + 1)..Cumulative(p_level) :
                         Dist2(nodes[base + labs[j] + 1][2], data[j])
                           <= Dist2(nodes[m][2], data[j])
                   /\ (p_level = 1 /\ data[j] = nodes[1][2]) => labs[j] = 0

C6_Witness ==
    /\ out[FALSE] # None
    /\ p_level = 2
    /\ Len(data) = 2
    /\ out[FALSE][1][1] # out[FALSE][1][2]
    /\ out[FALSE][1][1] > 0

\* C9: the parallel call returns the same label at every query position as
\* the sequential call with the same arguments, whatever the interleaving
\* of the workers; the workers leave the centers as predict sliced them.
C9_ParallelEqualsSequential ==
    /\ (out[TRUE] # None /\ out[FALSE] # None) =>
          /\ Len(out[TRUE][1]) = Len(out[FALSE][1])
          /\ \A j \in 1..Len(out[FALSE][1]) : out[TRUE][1][j] = out[FALSE][1][j]
    /\ p_pc = "map" => centers = LevelCenters(nodes, n_nodes, p_level)

C9_Witness ==
    /\ out[TRUE] # None
    /\ out[FALSE] # None
    /\ parallel
    /\ Len(data) = 2
    /\ out[TRUE][1][1] # out[TRUE][1][2]

\* ------------------------------------------------- registration: properties
LoopLeft == pc \in {"return", "returned", "raised_unbound"}

\* iteration k (1-based) has an objective within tol of iteration k-1's
ConvAt(k) ==
    /\ k >= 2
    /\ Len(hist[k].q) = 1
    /\ Len(hist[k - 1].q) = 1
    /\ hist[k].q[1] - hist[k - 1].q[1] < tol
    /\ hist[k - 1].q[1] - hist[k].q[1] < tol

\* C1: the loop stops exactly after the first iteration k whose objective is
\* within tol of the previous iteration's (or after maxiter iterations if
\* there is none): no E-step or M-step follows such an iteration, and the
\* loop is never left by convergence without one.
C1_StopsAtFirstConvergence ==
    /\ nE <= maxiter
    /\ Len(hist) \in {nE, nE - 1}
    /\ \A k \in 1..Len(hist) :
          ConvAt(k) => k = Len(hist) /\ pc \in {"callbacks", "raised", "return", "returned"}
    /\ LoopLeft =>
          IF \E k \in 1..Len(hist) : ConvAt(k)
          THEN exit = "Converged"
          ELSE exit = "MaxIterationsReached" /\ Len(hist) = maxiter /\ nE = maxiter

C1_Witness ==
    /\ pc = "returned"
    /\ exit = "Converged"
    /\ Len(hist) = 2
    /\ maxiter = 3
    /\ nE = 2

\* C2 (as claimed): for every maxiter >= 0 the loop runs at most maxiter
\* iterations and, once left, ends Converged or MaxIterationsReached and
\* returns a transformation and its objective; leaving the loop never
\* ends in an error.
C2_AlwaysReturns ==
    /\ nE <= maxiter
    /\ exit # "none" =>
          /\ exit \in {"Converged", "MaxIterationsReached"}
          /\ pc \in {"return", "returned"}
    /\ pc = "returned" => Len(ret) = 1

\* C3 (as claimed): with maxiter = 1, from a transformation the M-step
\* leaves unchanged, the loop exits Converged.
C3_Original ==
    (/\ LoopLeft
     /\ maxiter = 1
     /\ Len(hist) = 1
     /\ hist[1].transformation = hist[1].prior) => exit = "Converged"

\* C3 (amended): the first iteration has no previous objective, so with
\* maxiter = 1 the loop runs one iteration and exits MaxIterationsReached;
\* an unchanged objective is detected on the second iteration, where the
\* loop exits Converged.
C3_ConvergesOnSecondIteration ==
    LoopLeft =>
      /\ maxiter = 1 => exit = "MaxIterationsReached" /\ Len(hist) = 1
      /\ (/\ maxiter >= 2
          /\ Len(hist) >= 2
          /\ Len(hist[1].q) = 1
          /\ hist[2].q = hist[1].q) => exit = "Converged" /\ Len(hist) = 2

C3_Witness ==
    /\ pc = "returned"
    /\ maxiter = 1
    /\ Len(hist) = 1
    /\ hist[1].transformation = hist[1].prior
    /\ Len(hist[1].q) = 1
    /\ exit = "MaxIterationsReached"

\* a after b is the identity on every point
IsInverseOf(a, b) ==
    \A p \in Vec : transform(a, transform(b, <<p>>)) = <<p>>

\* C4: callbacks are invoked once per completed iteration, never before the
\* first M-step, in list order, after that iteration's M-step, each with
\* exactly one argument, the inverse of the working transformation; the
\* number of invocations is (iterations completed) x (number of callbacks).
C4_CallbackContract ==
    /\ \A k \in 1..Len(cblog) :
          LET n == Len(callbacks)
              it == (k - 1) \div n
              pos == ((k - 1) % n) + 1
          IN /\ cblog[k].iter = it
             /\ cblog[k].cb = callbacks[pos]
             /\ Len(cblog[k].args) = 1
             /\ it + 1 <= Len(hist)
             /\ IsInverseOf(cblog[k].args[1], hist[it + 1].transformation)
    /\ pc \in {"for", "return", "returned", "raised_unbound"} =>
          Len(cblog) = Len(hist) * Len(callbacks)
    /\ pc = "mstep" => Len(cblog) = Len(hist) * Len(callbacks)

C4_Witness ==
    /\ pc = "returned"
    /\ exit = "Converged"
    /\ Len(callbacks) = 2
    /\ Len(cblog) = 4
    /\ cblog[4].args[1] # tf_result
    /\ cblog[4].args[1] # cblog[2].args[1]

\* C7 (as claimed): an M-step never produces a result from an E-step that
\* left every node with a mass below epsilon.
C7_ZeroMassRaises ==
    \A k \in 1..Len(hist) :
        \E n \in 1..Len(hist[k].moments) : ~(hist[k].moments[n][1] < F32Eps)

\* C8: when a callback raises, the error leaves registration: the raising
\* invocation is the last one, no convergence check, E-step or M-step
\* follows and nothing is returned.
C8_CallbackErrorPropagates ==
    \A k \in 1..Len(cblog) :
        cblog[k].outcome = "raised" =>
          /\ k = Len(cblog)
          /\ pc = "raised"
          /\ ret = None
          /\ exit = "none"
          /\ i = cblog[k].iter
          /\ nE = cblog[k].iter + 1
          /\ Len(hist) = cblog[k].iter + 1
          /\ q = IF i = 0 THEN None ELSE Some(hist[i].q)

C8_Witness ==
    /\ pc = "raised"
    /\ Len(callbacks) = 2
    /\ c = 1
    /\ i = 1
    /\ Len(cblog) = 3

\* C10: while registration runs, no step changes the tree or the model's
\* parameters; the tree is replaced only by set_source; the working
\* transformation changes only in the M-step's assignment, which sets it
\* once per iteration to the M-step's result.
C10_TreeReadOnly ==
    [][/\ pc # "idle" => UNCHANGED modelVars
       /\ <<tree_level, lambda_c, lambda_s, n_nodes>>' = <<tree_level, lambda_c, lambda_s, n_nodes>>
       /\ nodes' # nodes => pc = "idle" /\ source' # source
       /\ tf_result' # tf_result => pc = "mstep"
       /\ pc = "mstep" =>
             /\ Len(hist') = Len(hist) + 1
             /\ tf_result' = res'[1].transformation
       /\ Len(hist') = Len(hist) \/ pc = "mstep"]_vars

C10_Witness ==
    /\ pc = "returned"
    /\ Len(hist) = 3
    /\ tf_result # hist[1].prior
    /\ nodes = build_gmmtree(source, tree_level, lambda_s, VarianceFloor)

====
